---- MODULE Spec2Model ----
(***************************************************************************)
(* Model of the credential import command (ImportCredentialsCommand) of    *)
(* packages/cli: flag validation, assignee resolution, the two input       *)
(* modes, the transaction around the write loop, storeCredential, the      *)
(* success report and the catch handler.                                   *)
(*                                                                         *)
(* The database tables are bags of rows, so that a duplicate row is a      *)
(* state the model can reach and a claim can rule out.  The transaction    *)
(* manager works on its own copy of the tables; commit publishes the copy  *)
(* and rollback discards it.  A credential row carries its identifier and  *)
(* its data column; name and type are passed through untouched by every    *)
(* line of the command and are left out.                                   *)
(***************************************************************************)
EXTENDS Bags, FiniteSets, Integers, Sequences, TLC

VARIABLES
    users,              \* the user table: set of [id, role]
    dbType,             \* config.getEnv('database.type')
    credentials,        \* committed credentials_entity rows: bag of [id, data]
    shared,             \* committed shared_credentials rows: bag of [credentialsId, userId, role]
    idSeq,              \* last value of credentials_entity_id_seq (0: never set)
    flags,              \* the parsed command line: [input, separate, userId]
    disk,               \* what the input path names: [kind, json, files]
    pc,                 \* position of run()
    user,               \* id of the resolved assignee ("" before resolution)
    totalImported,      \* the local of run()
    items,              \* the files of the directory / the records of the array
    idx,                \* loop position, 1-based
    transactionManager, \* [open, credentials, shared]: the transaction's view
    log,                \* what the logger received in this invocation
    error,              \* message of the error thrown ("" if none)
    outcome,            \* "running", "soft" (logged return), "success", "error"
    txnState,           \* "none", "open", "committed", "rolledback" for this invocation
    setvalCalls,        \* sequence repairs issued in this invocation
    startCredentials,   \* credentials when the invocation started
    startShared,        \* shared when the invocation started
    rerun,              \* the invocation repeats the previous, successful one
    runs,               \* invocations so far
    workflows,          \* workflow_entity rows: set of workflow ids
    sharedWorkflows,    \* shared_workflow rows: set of [workflowId, userId, role]
    executions,         \* execution_entity rows: set of [id, workflowId]
    response,           \* the response to the last public API request
    createdFor,         \* the user each workflow was created for
    sharedWith          \* the (workflow, user) pairs of the sharing calls

vars == << users, dbType, credentials, shared, idSeq, flags, disk, pc, user,
           totalImported, items, idx, transactionManager, log, error, outcome,
           txnState, setvalCalls, startCredentials, startShared, rerun, runs,
           workflows, sharedWorkflows, executions, response, createdFor, sharedWith >>

\* the state of the public API of executions
apiVars == << workflows, sharedWorkflows, executions, response, createdFor, sharedWith >>

\* the state of the import command
importVars == << users, dbType, credentials, shared, idSeq, flags, disk, pc, user,
                 totalImported, items, idx, transactionManager, log, error, outcome,
                 txnState, setvalCalls, startCredentials, startShared, rerun, runs >>

---------------------------------------------------------------------------
(* Bounds of the model *)

\* longest input array / most files in the input directory
MaxLen == 2
\* invocations of the command in one behaviour
MaxRuns == 2
\* workflows in the database of the public API
MaxWorkflows == 2
\* executions in the database of the public API
MaxExecutions == 2

---------------------------------------------------------------------------
(* Constants of the program and sample values *)

GLOBAL_OWNER == "owner"
GLOBAL_MEMBER == "member"
CREDENTIAL_OWNER == "credential owner"
UM_FIX_INSTRUCTION == "Please reset your instance"
encryptionKey == "k"

MsgNoInput == "An input file or directory with --input must be provided"
MsgNotDirectory == "The argument to --input must be a directory"
MsgNotArray ==
    "File does not seem to contain credentials. Make sure the credentials are contained in an array."
MsgCatch == "An error occurred while importing credentials. See log messages for details."
MsgOwnerNotFound == "Failed to find owner. " \o UM_FIX_INSTRUCTION
MsgUserNotFound(userId) == "Failed to find user with ID " \o userId
MsgTypeError == "Cannot read properties of null (reading 'length')"
MsgRead == "ENOENT or EISDIR"
MsgParse == "Failed to parse JSON"
MsgPersistence == "QueryFailedError"

\* user tables the command can meet: with and without a global owner
UserTables ==
    { { [id |-> "u1", role |-> GLOBAL_OWNER], [id |-> "u2", role |-> GLOBAL_MEMBER] },
      { [id |-> "u2", role |-> GLOBAL_MEMBER] } }
\* --userId values: absent, an existing user, an unknown user
UserIdFlags == {"", "u2", "u9"}
DbTypes == {"postgresdb", "sqlite"}

\* the data field of a record of the input, by its JSON type
ObjectData == [kind |-> "object", val |-> "{token:secret}"]
StringData == [kind |-> "string", val |-> "U2FsdGVkX1"]
NumberData == [kind |-> "number", val |-> "42"]

\* the credential records the inputs are made of
SampleRecords ==
    { [id |-> 1, data |-> ObjectData], [id |-> 1, data |-> StringData],
      [id |-> 2, data |-> NumberData] }

RecordLists == UNION { [1..n -> SampleRecords] : n \in 0..MaxLen }

\* JSON values a single input file can hold
Json(kind, list) == [kind |-> kind, items |-> list]
FileContents ==
    { Json(k, <<>>) : k \in {"garbage", "null", "object", "number", "string"} }
    \cup { Json("array", l) : l \in RecordLists }

NoJson == Json("none", <<>>)
MissingEntry == [kind |-> "missing", json |-> NoJson, files |-> <<>>]
FileEntry(j) == [kind |-> "file", json |-> j, files |-> <<>>]
DirEntry(l) == [kind |-> "dir", json |-> NoJson, files |-> l]
DiskEntries ==
    {MissingEntry} \cup { FileEntry(j) : j \in FileContents }
                   \cup { DirEntry(l) : l \in RecordLists }

InputPath == "backups/latest"
Flags == [input : {"", InputPath}, separate : BOOLEAN, userId : UserIdFlags]

NoTransaction == [open |-> FALSE, credentials |-> EmptyBag, shared |-> EmptyBag]

---------------------------------------------------------------------------
(* Collaborators: typeof, setData, upsert, the user lookups *)

\* JavaScript's typeof on the data field
TypeOf(data) ==
    CASE data.kind \in {"object", "array", "null"} -> "object"
      [] data.kind = "string" -> "string"
      [] data.kind = "number" -> "number"
      [] data.kind = "boolean" -> "boolean"
      [] OTHER -> "undefined"

\* Credentials.prototype.setData: the data becomes the cipher text of its JSON
Encrypt(data, key) ==
    [kind |-> "string", val |-> "enc(" \o key \o "," \o data.kind \o ":" \o data.val \o ")"]

KeyMatch(a, b, keys) == \A k \in keys : a[k] = b[k]

\* an upsert that ignores the conflict keys and always inserts
Upsert_AlwaysInserts(table, row, keys) == table (+) SetToBag({row})

\* EntityManager.upsert(table, row, conflictKeys): insert, or replace the rows
\* that agree with row on the conflict keys
Upsert(table, row, keys) ==
    LET hit == { r \in BagToSet(table) : KeyMatch(r, row, keys) }
        rest == [r \in BagToSet(table) \ hit |-> table[r]]
        copies == BagCardinality([r \in hit |-> table[r]])
    IN  IF hit = {} THEN table (+) SetToBag({row})
        ELSE rest (+) [r \in {row} |-> copies]

MaxId(table) ==
    LET ids == { r.id : r \in BagToSet(table) }
    IN  CHOOSE m \in ids : \A i \in ids : i <= m

\* Db.collections.User.findOneBy({ role: GLOBAL_OWNER }): the matching accounts
GetOwner(table) == { u.id : u \in { v \in table : v.role = GLOBAL_OWNER } }

\* Db.collections.User.findOneBy({ id: userId }): the matching accounts
GetAssignee(table, userId) == { u.id : u \in { v \in table : v.id = userId } }

\* a report that forgets the singular
SuccessMessage_AlwaysPlural(total) ==
    "Successfully imported " \o ToString(total) \o " " \o "credentials."

\* reportSuccess's message
SuccessMessage(total) ==
    "Successfully imported " \o ToString(total) \o " "
        \o (IF total = 1 THEN "credential." ELSE "credentials.")

Info(msg) == [level |-> "info", msg |-> msg]
Error(msg) == [level |-> "error", msg |-> msg]

\* the normalizer of both loops: plain data is encrypted in place
Normalize(credential) ==
    IF TypeOf(credential.data) = "object"
    THEN [credential EXCEPT !.data = Encrypt(credential.data, encryptionKey)]
    ELSE credential

\* a storeCredential that forgets the ownership link
StoreCredential_NoLink(tm, credential, assignee, failStep) ==
    LET creds == Upsert(tm.credentials, credential, {"id"})
        repair == dbType = "postgresdb"
    IN  [ ok |-> failStep = "",
          tm |-> [open |-> TRUE, credentials |-> creds, shared |-> tm.shared],
          setval |-> repair /\ failStep = "",
          seq |-> IF repair /\ failStep = "" THEN MaxId(creds) ELSE idSeq ]

\* a storeCredential that repairs the sequence on every backend
StoreCredential_RepairsEverywhere(tm, credential, assignee, failStep) ==
    LET creds == Upsert(tm.credentials, credential, {"id"})
        link == [credentialsId |-> credential.id, userId |-> assignee,
                 role |-> CREDENTIAL_OWNER]
        links == Upsert(tm.shared, link, {"credentialsId", "userId"})
    IN  [ ok |-> failStep = "",
          tm |-> [open |-> TRUE, credentials |-> creds, shared |-> links],
          setval |-> failStep = "",
          seq |-> IF failStep = "" THEN MaxId(creds) ELSE idSeq ]

\* a storeCredential whose link upsert conflicts on the credential alone
StoreCredential_ReassignsLink(tm, credential, assignee, failStep) ==
    LET creds == Upsert(tm.credentials, credential, {"id"})
        link == [credentialsId |-> credential.id, userId |-> assignee,
                 role |-> CREDENTIAL_OWNER]
        links == Upsert(tm.shared, link, {"credentialsId"})
        repair == dbType = "postgresdb"
    IN  [ ok |-> failStep = "",
          tm |-> [open |-> TRUE, credentials |-> creds, shared |-> links],
          setval |-> repair /\ failStep = "",
          seq |-> IF repair /\ failStep = "" THEN MaxId(creds) ELSE idSeq ]

\* storeCredential: the two upserts and, on postgres, the sequence repair.
\* failStep names the statement the database rejects ("" for none).
StoreCredential(tm, credential, assignee, failStep) ==
    LET creds == Upsert(tm.credentials, credential, {"id"})
        link == [credentialsId |-> credential.id, userId |-> assignee,
                 role |-> CREDENTIAL_OWNER]
        links == Upsert(tm.shared, link, {"credentialsId", "userId"})
        repair == dbType = "postgresdb"
    IN  [ ok |-> failStep = "",
          tm |-> [open |-> TRUE, credentials |-> creds, shared |-> links],
          setval |-> repair /\ failStep = "",
          seq |-> IF repair /\ failStep = "" THEN MaxId(creds) ELSE idSeq ]

FailSteps == {"", "upsertCredentials", "upsertShared", "setval"}

---------------------------------------------------------------------------
(* The public API of executions: its users, requests and responses *)

WORKFLOW_OWNER == "workflow owner"
WORKFLOW_EDITOR == "workflow editor"

\* the three accounts every test of the API starts with
owner == [id |-> "owner", role |-> GLOBAL_OWNER]
user1 == [id |-> "user1", role |-> GLOBAL_MEMBER]
user2 == [id |-> "user2", role |-> GLOBAL_MEMBER]
ApiUsers == {owner, user1, user2}

\* the API key createUser gave the account
ApiKeyOf(userId) == "key-" \o userId

\* what a request carries in X-N8N-API-KEY: nothing, a key of no account, a key of an account
RequestKeys == {"", "abcXYZ"} \cup { ApiKeyOf(u.id) : u \in ApiUsers }

NoResponse == [route |-> "none", key |-> "", id |-> 0, status |-> 0, data |-> {}]

---------------------------------------------------------------------------
(* State machine *)

Init ==
    /\ users \in UserTables
    /\ dbType \in DbTypes
    /\ credentials = EmptyBag
    /\ shared = EmptyBag
    /\ idSeq = 0
    /\ flags = [input |-> "", separate |-> FALSE, userId |-> ""]
    /\ disk = MissingEntry
    /\ pc = "idle"
    /\ user = ""
    /\ totalImported = 0
    /\ items = <<>>
    /\ idx = 0
    /\ transactionManager = NoTransaction
    /\ log = <<>>
    /\ error = ""
    /\ outcome = "running"
    /\ txnState = "none"
    /\ setvalCalls = 0
    /\ startCredentials = credentials
    /\ startShared = shared
    /\ rerun = FALSE
    /\ runs = 0
    /\ workflows = {}
    /\ sharedWorkflows = {}
    /\ executions = {}
    /\ response = NoResponse
    /\ createdFor = <<>>
    /\ sharedWith = {}

\* what a fresh process of the command starts with
Launch(f, d, repeat) ==
    /\ flags' = f
    /\ disk' = d
    /\ pc' = "start"
    /\ user' = ""
    /\ totalImported' = 0
    /\ items' = <<>>
    /\ idx' = 0
    /\ transactionManager' = NoTransaction
    /\ log' = <<>>
    /\ error' = ""
    /\ outcome' = "running"
    /\ txnState' = "none"
    /\ setvalCalls' = 0
    /\ startCredentials' = credentials
    /\ startShared' = shared
    /\ rerun' = repeat
    /\ runs' = runs + 1
    /\ UNCHANGED << apiVars, users, dbType, credentials, shared, idSeq >>

\* the operator starts the command: a fresh process with its own command line,
\* against the database as the earlier invocations left it
Invoke(f, d) ==
    /\ pc = "idle"
    /\ runs < MaxRuns
    /\ f.input = "" => d = MissingEntry
    /\ Launch(f, d, FALSE)

\* the operator runs the command again, with the same command line on the same input
InvokeAgain ==
    /\ pc = "done"
    /\ runs < MaxRuns
    /\ Launch(flags, disk, outcome = "success")

\* run() or catch() has returned: the process ends and only the database remains
Exit ==
    /\ pc = "done"
    /\ pc' = "idle"
    /\ flags' = [input |-> "", separate |-> FALSE, userId |-> ""]
    /\ disk' = MissingEntry
    /\ user' = ""
    /\ totalImported' = 0
    /\ items' = <<>>
    /\ idx' = 0
    /\ log' = <<>>
    /\ error' = ""
    /\ outcome' = "running"
    /\ txnState' = "none"
    /\ setvalCalls' = 0
    /\ startCredentials' = credentials
    /\ startShared' = shared
    /\ rerun' = FALSE
    /\ UNCHANGED << apiVars, users, dbType, credentials, shared, idSeq, transactionManager, runs >>

\* a throw inside run(): control passes to catch()
Throw(msg) ==
    /\ error' = msg
    /\ pc' = "catch"

\* a check that lets a plain file through in directory mode
CheckInput_NoDirectoryCheck ==
    /\ pc = "start"
    /\ IF flags.input = ""
       THEN /\ log' = Append(log, Info(MsgNoInput))
            /\ outcome' = "soft"
            /\ pc' = "done"
       ELSE /\ pc' = "resolve"
            /\ UNCHANGED << log, outcome >>
    /\ UNCHANGED << apiVars, users, dbType, credentials, shared, idSeq, flags, disk, user,
                    totalImported, items, idx, transactionManager, error, txnState,
                    setvalCalls, startCredentials, startShared, rerun, runs >>

\* run(), lines 93-105: the input flag and the directory check
CheckInput ==
    /\ pc = "start"
    /\ IF flags.input = ""
       THEN /\ log' = Append(log, Info(MsgNoInput))
            /\ outcome' = "soft"
            /\ pc' = "done"
       ELSE IF flags.separate /\ disk.kind # "missing" /\ disk.kind # "dir"
       THEN /\ log' = Append(log, Info(MsgNotDirectory))
            /\ outcome' = "soft"
            /\ pc' = "done"
       ELSE /\ pc' = "resolve"
            /\ UNCHANGED << log, outcome >>
    /\ UNCHANGED << apiVars, users, dbType, credentials, shared, idSeq, flags, disk, user,
                    totalImported, items, idx, transactionManager, error, txnState,
                    setvalCalls, startCredentials, startShared, rerun, runs >>

\* a resolution that falls back to any account instead of throwing
ResolveUser_Fallback ==
    /\ pc = "resolve"
    /\ LET found == IF flags.userId # "" THEN GetAssignee(users, flags.userId)
                    ELSE GetOwner(users)
       IN  IF found = {}
           THEN /\ user' = "u2"
                /\ pc' = "load"
                /\ UNCHANGED error
           ELSE /\ \E u \in found : user' = u
                /\ pc' = "load"
                /\ UNCHANGED error
    /\ UNCHANGED << apiVars, users, dbType, credentials, shared, idSeq, flags, disk,
                    totalImported, items, idx, transactionManager, log, outcome,
                    txnState, setvalCalls, startCredentials, startShared, rerun, runs >>

\* run(), lines 107-111: the assignee is resolved once
ResolveUser ==
    /\ pc = "resolve"
    /\ LET found == IF flags.userId # "" THEN GetAssignee(users, flags.userId)
                    ELSE GetOwner(users)
       IN  IF found = {}
           THEN /\ Throw(IF flags.userId # "" THEN MsgUserNotFound(flags.userId)
                         ELSE MsgOwnerNotFound)
                /\ UNCHANGED user
           ELSE /\ \E u \in found : user' = u
                /\ pc' = "load"
                /\ UNCHANGED error
    /\ UNCHANGED << apiVars, users, dbType, credentials, shared, idSeq, flags, disk,
                    totalImported, items, idx, transactionManager, log, outcome,
                    txnState, setvalCalls, startCredentials, startShared, rerun, runs >>

\* run(), lines 113-125: the *.json files of the directory
LoadSeparate ==
    /\ pc = "load"
    /\ flags.separate
    /\ LET files == IF disk.kind = "dir" THEN disk.files ELSE <<>>
       IN  /\ items' = files
           /\ totalImported' = Len(files)
    /\ pc' = "begin"
    /\ UNCHANGED << apiVars, users, dbType, credentials, shared, idSeq, flags, disk, user,
                    idx, transactionManager, log, error, outcome, txnState,
                    setvalCalls, startCredentials, startShared, rerun, runs >>

\* run(), lines 147-157: read, parse, take the length, check for an array
LoadSingle ==
    /\ pc = "load"
    /\ ~flags.separate
    /\ IF disk.kind # "file"
       THEN Throw(MsgRead) /\ UNCHANGED << items, totalImported >>
       ELSE IF disk.json.kind = "garbage"
       THEN Throw(MsgParse) /\ UNCHANGED << items, totalImported >>
       ELSE IF disk.json.kind = "null"
       THEN Throw(MsgTypeError) /\ UNCHANGED << items, totalImported >>
       ELSE IF disk.json.kind # "array"
       THEN Throw(MsgNotArray) /\ UNCHANGED << items, totalImported >>
       ELSE /\ items' = disk.json.items
            /\ totalImported' = Len(disk.json.items)
            /\ pc' = "begin"
            /\ UNCHANGED error
    /\ UNCHANGED << apiVars, users, dbType, credentials, shared, idSeq, flags, disk, user,
                    idx, transactionManager, log, outcome, txnState,
                    setvalCalls, startCredentials, startShared, rerun, runs >>

\* Db.getConnection().transaction(...): the transaction opens on the committed tables
BeginTransaction ==
    /\ pc = "begin"
    /\ transactionManager' = [open |-> TRUE, credentials |-> credentials, shared |-> shared]
    /\ txnState' = "open"
    /\ idx' = 1
    /\ pc' = "loop"
    /\ UNCHANGED << apiVars, users, dbType, credentials, shared, idSeq, flags, disk, user,
                    totalImported, items, log, error, outcome, setvalCalls,
                    startCredentials, startShared, rerun, runs >>

\* a rollback that leaves the work of the transaction in the tables
Rollback_KeepsWrites(msg) ==
    /\ credentials' = transactionManager.credentials
    /\ shared' = transactionManager.shared
    /\ transactionManager' = NoTransaction
    /\ txnState' = "rolledback"
    /\ Throw(msg)

\* the callback threw: the transaction discards its work and rethrows
Rollback(msg) ==
    /\ transactionManager' = NoTransaction
    /\ txnState' = "rolledback"
    /\ Throw(msg)
    /\ UNCHANGED << credentials, shared >>

\* one iteration of either loop on an already parsed record
StoreStep(credential, failStep) ==
    LET r == StoreCredential(transactionManager, Normalize(credential), user, failStep)
    IN  /\ failStep = "setval" => dbType = "postgresdb"
        /\ idSeq' = r.seq
        /\ setvalCalls' = IF r.setval THEN setvalCalls + 1 ELSE setvalCalls
        /\ IF r.ok
           THEN /\ transactionManager' = r.tm
                /\ idx' = idx + 1
                /\ UNCHANGED << credentials, shared, pc, error, txnState >>
           ELSE /\ Rollback(MsgPersistence)
                /\ UNCHANGED idx

\* a directory loop that stores the record as it was read
StoreStep_NoNormalize(credential, failStep) ==
    LET r == StoreCredential(transactionManager, credential, user, failStep)
    IN  /\ failStep = "setval" => dbType = "postgresdb"
        /\ idSeq' = r.seq
        /\ setvalCalls' = IF r.setval THEN setvalCalls + 1 ELSE setvalCalls
        /\ IF r.ok
           THEN /\ transactionManager' = r.tm
                /\ idx' = idx + 1
                /\ UNCHANGED << credentials, shared, pc, error, txnState >>
           ELSE /\ Rollback(MsgPersistence)
                /\ UNCHANGED idx

IterateSeparate_NoNormalize ==
    /\ pc = "loop"
    /\ flags.separate
    /\ idx <= Len(items)
    /\ \/ /\ Rollback(MsgParse)
          /\ UNCHANGED << idx, idSeq, setvalCalls >>
       \/ \E failStep \in FailSteps : StoreStep_NoNormalize(items[idx], failStep)
    /\ UNCHANGED << apiVars, users, dbType, flags, disk, user, totalImported, items, log,
                    outcome, startCredentials, startShared, rerun, runs >>

\* run(), lines 129-140: read and parse the file, normalize, store
IterateSeparate ==
    /\ pc = "loop"
    /\ flags.separate
    /\ idx <= Len(items)
    /\ \/ /\ Rollback(MsgParse)
          /\ UNCHANGED << idx, idSeq, setvalCalls >>
       \/ \E failStep \in FailSteps : StoreStep(items[idx], failStep)
    /\ UNCHANGED << apiVars, users, dbType, flags, disk, user, totalImported, items, log,
                    outcome, startCredentials, startShared, rerun, runs >>

\* run(), lines 161-167: normalize, store
IterateSingle ==
    /\ pc = "loop"
    /\ ~flags.separate
    /\ idx <= Len(items)
    /\ \E failStep \in FailSteps : StoreStep(items[idx], failStep)
    /\ UNCHANGED << apiVars, users, dbType, flags, disk, user, totalImported, items, log,
                    outcome, startCredentials, startShared, rerun, runs >>

\* the callback returned: the transaction commits, or the commit is rejected
Commit ==
    /\ pc = "loop"
    /\ idx > Len(items)
    /\ \/ /\ credentials' = transactionManager.credentials
          /\ shared' = transactionManager.shared
          /\ transactionManager' = NoTransaction
          /\ txnState' = "committed"
          /\ pc' = "report"
          /\ UNCHANGED error
       \/ Rollback(MsgPersistence)
    /\ UNCHANGED << apiVars, users, dbType, idSeq, flags, disk, user, totalImported, items,
                    idx, log, outcome, setvalCalls, startCredentials, startShared,
                    rerun, runs >>

\* reportSuccess(totalImported), lines 143 and 170
ReportSuccess ==
    /\ pc = "report"
    /\ log' = Append(log, Info(SuccessMessage(totalImported)))
    /\ outcome' = "success"
    /\ pc' = "done"
    /\ UNCHANGED << apiVars, users, dbType, credentials, shared, idSeq, flags, disk, user,
                    totalImported, items, idx, transactionManager, error, txnState,
                    setvalCalls, startCredentials, startShared, rerun, runs >>

\* catch(error)
Catch ==
    /\ pc = "catch"
    /\ log' = log \o << Error(MsgCatch), Error(error) >>
    /\ outcome' = "error"
    /\ pc' = "done"
    /\ UNCHANGED << apiVars, users, dbType, credentials, shared, idSeq, flags, disk, user,
                    totalImported, items, idx, transactionManager, error, txnState,
                    setvalCalls, startCredentials, startShared, rerun, runs >>

Next ==
    \/ \E f \in Flags, d \in DiskEntries : Invoke(f, d)
    \/ InvokeAgain
    \/ Exit
    \/ CheckInput
    \/ ResolveUser
    \/ LoadSeparate
    \/ LoadSingle
    \/ BeginTransaction
    \/ IterateSeparate
    \/ IterateSingle
    \/ Commit
    \/ ReportSuccess
    \/ Catch

Spec == Init /\ [][Next]_vars

---------------------------------------------------------------------------
(* The public API of executions, as its integration test drives it *)

\* the account an API key authenticates (none: the request is refused)
Authenticate(key) == { u \in users : ApiKeyOf(u.id) = key }

\* a lookup that lets every caller see every workflow
GetSharedWorkflowIds_Everything(caller) == workflows

\* the workflows a caller may read: all of them for the global owner, those
\* with a shared_workflow row of the caller otherwise
GetSharedWorkflowIds(caller) ==
    IF caller.role = GLOBAL_OWNER THEN workflows
    ELSE { r.workflowId : r \in { x \in sharedWorkflows : x.userId = caller.id } }

\* the executions a caller may read
VisibleExecutions(caller) ==
    { e \in executions : e.workflowId \in GetSharedWorkflowIds(caller) }

\* smallest identifier not in use
NextId(used, max) == CHOOSE i \in 1..max : i \notin used /\ \A j \in 1..(i - 1) : j \in used

InitApi ==
    /\ users = ApiUsers
    /\ dbType = "sqlite"
    /\ credentials = EmptyBag
    /\ shared = EmptyBag
    /\ idSeq = 0
    /\ flags = [input |-> "", separate |-> FALSE, userId |-> ""]
    /\ disk = MissingEntry
    /\ pc = "idle"
    /\ user = ""
    /\ totalImported = 0
    /\ items = <<>>
    /\ idx = 0
    /\ transactionManager = NoTransaction
    /\ log = <<>>
    /\ error = ""
    /\ outcome = "running"
    /\ txnState = "none"
    /\ setvalCalls = 0
    /\ startCredentials = EmptyBag
    /\ startShared = EmptyBag
    /\ rerun = FALSE
    /\ runs = 0
    /\ workflows = {}
    /\ sharedWorkflows = {}
    /\ executions = {}
    /\ response = NoResponse
    /\ createdFor = <<>>
    /\ sharedWith = {}

\* beforeEach: testDb.truncate of the shared, workflow, credential and execution tables
Truncate ==
    /\ workflows' = {}
    /\ sharedWorkflows' = {}
    /\ executions' = {}
    /\ credentials' = EmptyBag
    /\ shared' = EmptyBag
    /\ response' = NoResponse
    /\ createdFor' = <<>>
    /\ sharedWith' = {}
    /\ UNCHANGED << users, dbType, idSeq, flags, disk, pc, user, totalImported, items,
                    idx, transactionManager, log, error, outcome, txnState,
                    setvalCalls, startCredentials, startShared, rerun, runs >>

\* Each test arranges its rows, sends one request and checks the response; the
\* next test starts from the truncated tables.

\* testDb.createWorkflow({}, u): the workflow and its owner row
CreateWorkflow(u) ==
    /\ response = NoResponse
    /\ Cardinality(workflows) < MaxWorkflows
    /\ LET w == NextId(workflows, MaxWorkflows)
       IN  /\ workflows' = workflows \cup {w}
           /\ sharedWorkflows' = sharedWorkflows \cup
                  { [workflowId |-> w, userId |-> u.id, role |-> WORKFLOW_OWNER] }
           /\ createdFor' = createdFor @@ (w :> u.id)
    /\ UNCHANGED << response, executions, sharedWith, importVars >>

\* testDb.createSuccessfulExecution(workflow) and its siblings
CreateExecution(w) ==
    /\ response = NoResponse
    /\ w \in workflows
    /\ Cardinality(executions) < MaxExecutions
    /\ LET e == NextId({ x.id : x \in executions }, MaxExecutions)
       IN  executions' = executions \cup { [id |-> e, workflowId |-> w] }
    /\ UNCHANGED << response, workflows, sharedWorkflows, createdFor, sharedWith, importVars >>

\* testDb.shareWorkflowWithUsers(workflow, [u]): an editor row per user
ShareWorkflowWithUsers(w, us) ==
    /\ response = NoResponse
    /\ w \in workflows
    /\ us # {}
    /\ \A u \in us : \A r \in sharedWorkflows : ~(r.workflowId = w /\ r.userId = u.id)
    /\ sharedWorkflows' = sharedWorkflows \cup
           { [workflowId |-> w, userId |-> u.id, role |-> WORKFLOW_EDITOR] : u \in us }
    /\ sharedWith' = sharedWith \cup { <<w, u.id>> : u \in us }
    /\ UNCHANGED << response, workflows, executions, createdFor, importVars >>

\* GET /executions/:id with the key in X-N8N-API-KEY
GetExecution(key, id) ==
    /\ response = NoResponse
    /\ LET callers == Authenticate(key)
       IN  IF callers = {}
           THEN response' = [route |-> "get", key |-> key, id |-> id,
                             status |-> 401, data |-> {}]
           ELSE \E caller \in callers :
                  LET found == { e \in VisibleExecutions(caller) : e.id = id }
                  IN  response' = [route |-> "get", key |-> key, id |-> id,
                                   status |-> IF found = {} THEN 404 ELSE 200,
                                   data |-> found]
    /\ UNCHANGED << workflows, sharedWorkflows, executions, createdFor, sharedWith,
                    importVars >>

\* GET /executions with the key in X-N8N-API-KEY
GetExecutions(key) ==
    /\ response = NoResponse
    /\ LET callers == Authenticate(key)
       IN  IF callers = {}
           THEN response' = [route |-> "list", key |-> key, id |-> 0,
                             status |-> 401, data |-> {}]
           ELSE \E caller \in callers :
                  response' = [route |-> "list", key |-> key, id |-> 0,
                               status |-> 200, data |-> VisibleExecutions(caller)]
    /\ UNCHANGED << workflows, sharedWorkflows, executions, createdFor, sharedWith,
                    importVars >>

NextApi ==
    \/ Truncate
    \/ \E u \in ApiUsers : CreateWorkflow(u)
    \/ \E w \in 1..MaxWorkflows : CreateExecution(w)
    \/ \E w \in 1..MaxWorkflows, us \in SUBSET ApiUsers : ShareWorkflowWithUsers(w, us)
    \/ \E key \in RequestKeys, id \in 1..MaxExecutions : GetExecution(key, id)
    \/ \E key \in RequestKeys : GetExecutions(key)

SpecApi == InitApi /\ [][NextApi]_vars

---------------------------------------------------------------------------
(* Vocabulary of the properties *)

Range(seq) == { seq[i] : i \in DOMAIN seq }

\* number of rows of a credentials table that carry the identifier
RowsWithId(table, id) ==
    BagCardinality([r \in { x \in BagToSet(table) : x.id = id } |-> table[r]])

\* number of rows of a link table for the pair
RowsWithPair(table, id, userId) ==
    BagCardinality([r \in { x \in BagToSet(table) :
                              x.credentialsId = id /\ x.userId = userId } |-> table[r]])

OwnerLink(id, userId) ==
    [credentialsId |-> id, userId |-> userId, role |-> CREDENTIAL_OWNER]

InputIds == { items[i].id : i \in DOMAIN items }
DistinctIds == \A i, j \in DOMAIN items : items[i].id = items[j].id => i = j

\* the record of the input that decides the row of an identifier: the last one
LastRecord(id) ==
    items[CHOOSE i \in DOMAIN items :
            /\ items[i].id = id
            /\ \A j \in DOMAIN items : items[j].id = id => j <= i]

\* an info line that is neither of the two refusals is the success report
IsSuccessReport(m) == m.level = "info" /\ m.msg \notin {MsgNoInput, MsgNotDirectory}
SuccessReported == \E i \in DOMAIN log : IsSuccessReport(log[i])
ErrorReported == \E i \in DOMAIN log : log[i].level = "error"

StorageUnchanged == credentials = startCredentials /\ shared = startShared

SingleFileDone == pc = "done" /\ flags.input # "" /\ ~flags.separate
SeparateDone == pc = "done" /\ flags.input # "" /\ flags.separate

---------------------------------------------------------------------------
(* C1 *)

\* C1 as stated: after every successful single-file run over N records exactly
\* N credential rows and exactly N ownership links exist in storage, every link
\* with the resolved assignee and the role 'credential owner'.
C1_ExactlyNRows ==
    (SingleFileDone /\ outcome = "success") =>
        /\ BagCardinality(credentials) = Len(items)
        /\ BagCardinality(shared) = Len(items)
        /\ \A l \in BagToSet(shared) : l.userId = user /\ l.role = CREDENTIAL_OWNER

\* C1 amended: after a successful single-file run every identifier of the input
\* has exactly one credential row, holding the payload of its last record, and
\* exactly one (identifier, assignee, 'credential owner') link; rows of other
\* identifiers and links of other pairs are as they were; so N rows and N
\* links exist when the N identifiers are pairwise distinct and storage was empty.
C1_OneRowPerIdentifier ==
    (SingleFileDone /\ outcome = "success") =>
        /\ \A id \in InputIds :
              /\ RowsWithId(credentials, id) = 1
              /\ CopiesIn(Normalize(LastRecord(id)), credentials) = 1
              /\ RowsWithPair(shared, id, user) = 1
              /\ CopiesIn(OwnerLink(id, user), shared) = 1
        /\ \A r \in BagToSet(credentials) \cup BagToSet(startCredentials) :
              r.id \notin InputIds => CopiesIn(r, credentials) = CopiesIn(r, startCredentials)
        /\ \A l \in BagToSet(shared) \cup BagToSet(startShared) :
              ~(l.credentialsId \in InputIds /\ l.userId = user)
                  => CopiesIn(l, shared) = CopiesIn(l, startShared)
        /\ (DistinctIds /\ startCredentials = EmptyBag /\ startShared = EmptyBag) =>
              /\ BagCardinality(credentials) = Len(items)
              /\ BagCardinality(shared) = Len(items)
              /\ \A l \in BagToSet(shared) : l.userId = user /\ l.role = CREDENTIAL_OWNER

\* a successful single-file run of two records with distinct identifiers into empty storage
C1_Witness ==
    /\ SingleFileDone /\ outcome = "success"
    /\ Len(items) = 2 /\ DistinctIds
    /\ startCredentials = EmptyBag
    /\ BagCardinality(credentials) = 2

---------------------------------------------------------------------------
(* C2 *)

\* C2: once a step of the write phase has failed (an upsert, the sequence
\* repair, the commit, or in directory mode reading a file) the transaction is
\* rolled back and both tables are exactly as they were before the invocation,
\* however many records had been upserted before.
C2_AllOrNothing ==
    txnState = "rolledback" =>
        /\ StorageUnchanged
        /\ ~transactionManager.open
        /\ pc \in {"catch", "done"}
        /\ ~SuccessReported

\* the second record failed after the first had been upserted, against storage
\* that already held rows
C2_Witness ==
    /\ pc = "done" /\ txnState = "rolledback"
    /\ idx = 2 /\ Len(items) = 2
    /\ startCredentials # EmptyBag
    /\ items[1].id \notin { r.id : r \in BagToSet(startCredentials) }

---------------------------------------------------------------------------
(* C3 *)

\* C3 as stated: every row the import writes holds the encrypted, opaque-string
\* form: a non-string data field is replaced by its encryption under the
\* configured key, a string data field is stored as it is.
C3_EncryptedAtRest ==
    /\ \A r \in BagToSet(credentials) \cup BagToSet(transactionManager.credentials) :
          r.data.kind = "string"
    /\ (pc = "done" /\ outcome = "success") =>
          \A id \in InputIds :
              LET d == LastRecord(id).data
              IN  CopiesIn([id |-> id,
                            data |-> IF d.kind = "string" THEN d
                                     ELSE Encrypt(d, encryptionKey)], credentials) = 1

---------------------------------------------------------------------------
(* C4 *)

---------------------------------------------------------------------------
(* C5 *)

\* the user table holds no account for the command line: no account with the
\* given --userId, or no --userId and no global owner
Unresolvable ==
    IF flags.userId # "" THEN \A u \in users : u.id # flags.userId
    ELSE \A u \in users : u.role # GLOBAL_OWNER

ResolveErrors == {MsgOwnerNotFound, MsgUserNotFound(flags.userId)}

\* C5: when the run reaches the assignee resolution and no account matches, the
\* run fails with the not-found error, before any transaction is opened and
\* before any write: storage is unchanged and no success is reported.
C5_UnresolvedAssigneeFails ==
    /\ (Unresolvable /\ flags.input # "") =>
          /\ pc \in {"start", "resolve", "catch", "done"}
          /\ (pc = "done" /\ outcome # "soft") =>
                outcome = "error" /\ error \in ResolveErrors
    /\ error \in ResolveErrors =>
          /\ Unresolvable
          /\ user = ""
          /\ txnState = "none"
          /\ ~transactionManager.open
          /\ StorageUnchanged
          /\ ~SuccessReported
          /\ pc = "done" => log = << Error(MsgCatch), Error(error) >>

\* the owner lookup failed on a run that had records to import into storage
\* that already held rows
C5_Witness ==
    /\ pc = "done" /\ outcome = "error"
    /\ error = MsgOwnerNotFound
    /\ disk.kind = "file" /\ Len(disk.json.items) = 2
    /\ credentials # EmptyBag

---------------------------------------------------------------------------
(* C6 *)

\* C6: in directory mode, when the input path exists and is not a directory,
\* the run logs the refusal and returns normally: no error, no assignee
\* resolved, no transaction, no write, no success report, storage unchanged.
C6_NotADirectorySoftExit ==
    (flags.input # "" /\ flags.separate /\ disk.kind = "file" /\ pc # "start") =>
        /\ pc = "done"
        /\ outcome = "soft"
        /\ log = << Info(MsgNotDirectory) >>
        /\ error = ""
        /\ user = ""
        /\ txnState = "none"
        /\ ~transactionManager.open
        /\ StorageUnchanged

\* the refused path is a credentials file, and storage already held rows
C6_Witness ==
    /\ SeparateDone /\ disk.kind = "file"
    /\ disk.json.kind = "array" /\ Len(disk.json.items) = 1
    /\ flags.userId = ""
    /\ credentials # EmptyBag

---------------------------------------------------------------------------
(* C7 *)

\* C7 as stated, in its weakest reading: in directory mode a path that does not
\* exist or is not a directory is rejected, by an error or a logged refusal,
\* and the run never reports a successful import.
C7_DirectoryValidated ==
    (SeparateDone /\ disk.kind # "dir") =>
        /\ outcome \in {"error", "soft"}
        /\ ~SuccessReported

---------------------------------------------------------------------------
(* C8 *)

\* the tables a single-file run over the records leaves when nothing fails
RECURSIVE SingleFileResult(_, _, _)
SingleFileResult(tables, records, assignee) ==
    IF records = <<>> THEN tables
    ELSE SingleFileResult(
             StoreCredential(tables, Normalize(Head(records)), assignee, "").tm,
             Tail(records), assignee)

\* C8: a run that reaches the write phase ends the same way in both modes: as
\* a function of the storage it started from, the records (the array, or the
\* files in the order of the listing) and the assignee.  When nothing fails the
\* tables are those of the single-file loop over the records and the report
\* counts the records; when a step fails the tables are unchanged, the error
\* is reported and no count is.
C8_ModeEquivalence ==
    (pc = "done" /\ txnState # "none") =>
        LET start == [open |-> TRUE, credentials |-> startCredentials,
                      shared |-> startShared]
            result == SingleFileResult(start, items, user)
        IN  IF outcome = "success"
            THEN /\ credentials = result.credentials
                 /\ shared = result.shared
                 /\ log = << Info(SuccessMessage(Len(items))) >>
            ELSE /\ StorageUnchanged
                 /\ outcome = "error"
                 /\ log = << Error(MsgCatch), Error(error) >>

\* a directory of two files, one holding plain data, imported successfully
C8_Witness ==
    /\ SeparateDone /\ outcome = "success"
    /\ disk.kind = "dir" /\ Len(items) = 2
    /\ \E i \in DOMAIN items : items[i].data.kind = "object"
    /\ credentials # startCredentials

---------------------------------------------------------------------------
(* C9 *)

\* C9 as stated: in single-file mode a parsed value that is not an array (an
\* object, a scalar or null) makes the run fail with the 'File does not seem
\* to contain credentials' error before any transaction, storage unchanged and
\* no success reported.
C9_NotAnArrayError ==
    (SingleFileDone /\ user # "" /\ disk.kind = "file"
        /\ disk.json.kind \in {"object", "number", "string", "null"}) =>
        /\ outcome = "error"
        /\ error = MsgNotArray
        /\ txnState = "none"
        /\ StorageUnchanged
        /\ ~SuccessReported

---------------------------------------------------------------------------
(* C10 *)

\* the text the report is to carry for n records
ExpectedReport(n) ==
    IF n = 1 THEN "Successfully imported 1 credential."
    ELSE "Successfully imported " \o ToString(n) \o " credentials."

\* C10: a success report is in the log only once the transaction of the
\* invocation has committed; it is the only line of the log and carries the
\* number of records the loop processed, with 'credential.' for one and
\* 'credentials.' otherwise; a run that fails logs no success report; a
\* success report and an error report never share a log.
C10_ReportAfterCommit ==
    /\ SuccessReported =>
          /\ txnState = "committed"
          /\ ~transactionManager.open
          /\ credentials = SingleFileResult(
                 [open |-> TRUE, credentials |-> startCredentials,
                  shared |-> startShared], items, user).credentials
          /\ log = << Info(ExpectedReport(idx - 1)) >>
          /\ idx - 1 = Len(items)
          /\ pc = "done" /\ outcome = "success"
    /\ (outcome = "error" \/ error # "") => ~SuccessReported
    /\ ~(SuccessReported /\ ErrorReported)
    /\ (pc = "done" /\ outcome = "success") => SuccessReported

\* the report of a run that imported exactly one record
C10_Witness ==
    /\ pc = "done" /\ outcome = "success"
    /\ Len(items) = 1
    /\ log = << Info("Successfully imported 1 credential.") >>

---------------------------------------------------------------------------
(* C12 *)

\* C12 as stated: on postgres the sequence repair runs once per invocation,
\* after the loop over all records has finished; on every other backend no
\* repair is issued.
C12_RepairAfterLoop ==
    /\ setvalCalls > 0 => (dbType = "postgresdb" /\ idx > Len(items))
    /\ setvalCalls <= 1
    /\ (pc = "done" /\ outcome = "success" /\ dbType = "postgresdb") => setvalCalls = 1

\* C12 amended: on postgres the sequence repair runs inside storeCredential,
\* once per stored record, after that record's credential and ownership-link
\* upserts and inside the same transaction, each time setting the sequence to
\* the maximum credential identifier the transaction sees; so after the last
\* record of a successful run the sequence is the maximum credential
\* identifier.  On every other backend no sequence repair is issued.
C12_RepairPerRecord ==
    /\ dbType = "postgresdb" =>
          /\ txnState = "none" => setvalCalls = 0
          /\ txnState # "none" => setvalCalls = idx - 1
          /\ (transactionManager.open /\ idx > 1) =>
                idSeq = MaxId(transactionManager.credentials)
          /\ (pc = "done" /\ outcome = "success" /\ items # <<>>) =>
                idSeq = MaxId(credentials)
    /\ dbType # "postgresdb" => (setvalCalls = 0 /\ idSeq = 0)

\* postgres, in the middle of the loop: the first of two records is stored and
\* the sequence is already repaired
C12_Witness ==
    /\ dbType = "postgresdb"
    /\ pc = "loop" /\ Len(items) = 2 /\ idx = 2
    /\ setvalCalls = 1
    /\ idSeq = items[1].id

---------------------------------------------------------------------------
(* C13 *)

\* the links a committing step publishes: one per identifier of the input, all
\* for the assignee resolved at the start of the run
LinksOfRun == { OwnerLink(id, user) : id \in InputIds }

\* C13: ownership links only accumulate.  Every step leaves each link row as it
\* is; only the commit of a run adds rows, exactly the (credential, assignee,
\* 'credential owner') links of the records it imported, so the links in
\* storage are the pairs under which credentials were ever imported; an import
\* under another assignee adds a second link and changes no earlier one; and
\* inside one invocation every link written is for the one resolved user.
C13_LinksAccumulate ==
    /\ [](transactionManager.open =>
            \A l \in BagToSet(transactionManager.shared) :
                \/ CopiesIn(l, transactionManager.shared) = CopiesIn(l, startShared)
                \/ (l.userId = user /\ l.role = CREDENTIAL_OWNER
                      /\ \E i \in 1..(idx - 1) : items[i].id = l.credentialsId))
    /\ [][ /\ \A l \in BagToSet(shared) : CopiesIn(l, shared') >= CopiesIn(l, shared)
           /\ BagToSet(shared') =
                 BagToSet(shared) \cup
                    (IF txnState = "open" /\ txnState' = "committed"
                     THEN LinksOfRun ELSE {})
           /\ \A l \in BagToSet(shared') : CopiesIn(l, shared') = 1 ]_vars

\* a credential imported first for the owner and then for another user has both links
C13_Witness ==
    /\ pc = "done" /\ outcome = "success"
    /\ user = "u2"
    /\ 1 \in InputIds
    /\ CopiesIn(OwnerLink(1, "u1"), startShared) = 1
    /\ CopiesIn(OwnerLink(1, "u1"), shared) = 1
    /\ CopiesIn(OwnerLink(1, "u2"), shared) = 1
    /\ CopiesIn(OwnerLink(1, "u2"), startShared) = 0

---------------------------------------------------------------------------
(* C11 *)

\* the caller may read the execution: the caller is the global owner, or the
\* execution's workflow was created for the caller or shared with the caller
MayRead(caller, e) ==
    \/ caller.role = GLOBAL_OWNER
    \/ createdFor[e.workflowId] = caller.id
    \/ <<e.workflowId, caller.id>> \in sharedWith

====
